---------------------------- MODULE Spec2Model ----------------------------
(***************************************************************************)
(* SystemMonitor (system-monitoring-suite): the sampling / retention /     *)
(* alerting loop of src/unnamed/part_001, as a state machine.              *)
(*                                                                         *)
(* Clock.  Date.now() is the variable `now`, counted in seconds; the       *)
(* source's milliseconds are seconds * MsPerSecond.  A timer created by    *)
(* setInterval never fires early and may fire late.                        *)
(*                                                                         *)
(* Suspension.  Every `await` of the source is a point where the handler   *)
(* is suspended and other handlers may run; the code between two awaits    *)
(* is one atomic action.                                                   *)
(*                                                                         *)
(* Events.  `emitted` holds the events the last action emitted, in order.  *)
(* EventEmitter.emit('error', e) throws e when no 'error' listener is      *)
(* registered (Node's documented behaviour); hasErrorListener records      *)
(* whether one is.                                                         *)
(*                                                                         *)
(* Left out: cpu temperature / loadAverage / swap (optional snapshot       *)
(* fields no operation reads), config.debug console output.                *)
(***************************************************************************)
EXTENDS Integers, Sequences, FiniteSets, TLC

(***************************************************************************)
(* Bounds of the exploration                                               *)
(***************************************************************************)
MaxNow == 2          \* the clock stops advancing here (seconds)
MaxCalls == 2        \* collectMetrics invocations in flight at once
MaxTimers == 2       \* setInterval timers alive at once (incl. pending starts)
MaxStore == 2        \* a timer fires only while the store is below this size
MaxDays == 3         \* the clock stops advancing by days here

(***************************************************************************)
(* Program constants                                                       *)
(***************************************************************************)
MsPerSecond == 1000
SecondsPerDay == 24 * 60 * 60
AlertRetentionDays == 30
FallbackRetention == 7

Families == {"cpu", "memory", "disk", "network"}

\* {...a, ...b}: object spread, the fields of b override those of a
Spread(a, b) ==
  [k \in (DOMAIN a) \cup (DOMAIN b) |-> IF k \in DOMAIN b THEN b[k] ELSE a[k]]

\* config.metrics?.cpu and friends: the field, or nothing to spread
Opt(c, k) == IF k \in DOMAIN c THEN c[k] ELSE <<>>

DefaultConfig ==
  [ interval |-> 5000,
    enabled |-> TRUE,
    debug |-> FALSE,
    logLevel |-> "info",
    environment |-> "development",
    metrics |->
      [ cpu |-> [ enabled |-> TRUE, interval |-> 5000,
                  thresholds |-> [warning |-> 70, critical |-> 85, emergency |-> 95],
                  retention |-> 7 ],
        memory |-> [ enabled |-> TRUE, interval |-> 5000,
                     thresholds |-> [warning |-> 80, critical |-> 90, emergency |-> 95],
                     retention |-> 7 ],
        disk |-> [ enabled |-> TRUE, interval |-> 10000,
                   thresholds |-> [warning |-> 80, critical |-> 90, emergency |-> 95],
                   retention |-> 7 ],
        network |-> [ enabled |-> TRUE, interval |-> 5000,
                      thresholds |-> [warning |-> 1000, critical |-> 2000, emergency |-> 5000],
                      retention |-> 7 ] ],
    alerts |-> [ enabled |-> TRUE, cooldownPeriod |-> "5m",
                 maxAlertsPerHour |-> 20, escalationEnabled |-> TRUE ] ]

mergeDefaultConfig(c) ==
  LET d == DefaultConfig
      m == Opt(c, "metrics")
  IN  Spread(Spread(d, c),
        [ metrics |->
            Spread(Spread(d.metrics, m),
              [ cpu |-> Spread(d.metrics.cpu, Opt(m, "cpu")),
                memory |-> Spread(d.metrics.memory, Opt(m, "memory")),
                disk |-> Spread(d.metrics.disk, Opt(m, "disk")),
                network |-> Spread(d.metrics.network, Opt(m, "network")) ]),
          alerts |-> Spread(d.alerts, Opt(c, "alerts")) ])


(***************************************************************************)
(* Provider (systeminformation): the readings a call may resolve with      *)
(***************************************************************************)
\* si.currentLoad(): currentLoad in tenths of a percent, cpus.length
CpuReadings == { [load |-> 900, cores |-> 1] }
\* si.mem()
MemReadings == { [total |-> 8, used |-> 4, free |-> 4, available |-> 4] }
\* si.fsSize()
DiskReadings == { << [mount |-> "/", size |-> 100, used |-> 50, available |-> 50] >> }
\* si.networkStats()
NetReadings == { << [iface |-> "eth0", rx_bytes |-> 10, tx_bytes |-> 5, rx_sec |-> 1, tx_sec |-> 1] >> }

\* a rejected provider promise
Rejected == [ok |-> FALSE]
Resolved(r) == [ok |-> TRUE, value |-> r]
Outcomes(readings) == {Rejected} \cup {Resolved(r) : r \in readings}
\* the family is disabled: the provider is not called
NotCalled == {Rejected}

(***************************************************************************)
(* Numeric derivation                                                      *)
(***************************************************************************)
\* Math.round of a value given in tenths: floor(x + 0.5)
RoundTenths(t) == (t + 5) \div 10
\* seeded fault: RoundPct truncating
RoundPctDown(used, total) == (100 * used) \div total

\* Math.round((used / total) * 100) for total > 0
RoundPct(used, total) == (200 * used + total) \div (2 * total)

\* The two non-finite numbers a division by zero yields, as integers beyond
\* every finite value of the model: x / 0 is Infinity for x > 0 and 0 / 0 is
\* NaN; Math.round leaves both as they are.
Infinity == 1000000000
NaN == 0 - Infinity

\* a >= b and a > b on numbers: every comparison with NaN is false
Geq(a, b) == a # NaN /\ b # NaN /\ a >= b
Gt(a, b) == a # NaN /\ b # NaN /\ a > b

\* Math.round((used / total) * 100), no test of total
RoundRatio(used, total) ==
  IF total # 0 THEN RoundPct(used, total)
  ELSE IF used = 0 THEN NaN ELSE Infinity

RECURSIVE SumOf(_, _)
SumOf(s, field) == IF s = <<>> THEN 0 ELSE Head(s)[field] + SumOf(Tail(s), field)

ZeroCpu == [usage |-> 0, cores |-> 0]
ZeroMemory == [usage |-> 0, total |-> 0, used |-> 0, free |-> 0, available |-> 0]
ZeroDisk == [usage |-> 0, total |-> 0, used |-> 0, free |-> 0, devices |-> <<>>]
ZeroNetwork == [interfaces |-> <<>>]

CpuRecord(r) == [usage |-> RoundTenths(r.load), cores |-> r.cores]

MemoryRecord(r) ==
  [usage |-> RoundRatio(r.used, r.total), total |-> r.total, used |-> r.used,
   free |-> r.free, available |-> r.available]

DiskRecord(fs) ==
  LET totalSize == SumOf(fs, "size")
      totalUsed == SumOf(fs, "used")
      totalFree == SumOf(fs, "available")
  IN  [usage |-> IF totalSize > 0 THEN RoundPct(totalUsed, totalSize) ELSE 0,
       total |-> totalSize, used |-> totalUsed, free |-> totalFree,
       devices |-> [i \in 1..Len(fs) |->
                      [name |-> fs[i].mount,
                       usage |-> IF fs[i].size > 0 THEN RoundPct(fs[i].used, fs[i].size) ELSE 0,
                       total |-> fs[i].size, used |-> fs[i].used, free |-> fs[i].available]]]

NetworkRecord(ns) ==
  [interfaces |-> [i \in 1..Len(ns) |->
                     [name |-> ns[i].iface, bytesReceived |-> ns[i].rx_bytes,
                      bytesSent |-> ns[i].tx_bytes, packetsReceived |-> ns[i].rx_sec,
                      packetsSent |-> ns[i].tx_sec]]]

(***************************************************************************)
(* Alert evaluation                                                        *)
(***************************************************************************)
\* seeded fault: Reaches with a strict comparison
ReachesStrict(usage, thresholds, level) ==
  level \in DOMAIN thresholds /\ Gt(usage, thresholds[level])

\* usage >= thresholds.<level>; a comparison with undefined is false
Reaches(usage, thresholds, level) ==
  level \in DOMAIN thresholds /\ Geq(usage, thresholds[level])

\* seeded fault: createAlert with value and threshold exchanged
createAlertSwapped(metric, value, threshold, severity, t) ==
  [timestamp |-> t, severity |-> severity, metric |-> metric, value |-> threshold,
   threshold |-> value, resolved |-> FALSE]

\* createAlert (id and message left out)
createAlert(metric, value, threshold, severity, t) ==
  [timestamp |-> t, severity |-> severity, metric |-> metric, value |-> value,
   threshold |-> threshold, resolved |-> FALSE]

\* seeded fault: FamilyAlerts with the chain testing the lowest severity first
FamilyAlertsLowestFirst(cfg, metric, usage, t) ==
  LET th == cfg.metrics[metric].thresholds
  IN  IF ~cfg.metrics[metric].enabled THEN <<>>
      ELSE IF Reaches(usage, th, "warning")
        THEN << createAlert(metric, usage, th.warning, "warning", t) >>
      ELSE IF Reaches(usage, th, "critical")
        THEN << createAlert(metric, usage, th.critical, "critical", t) >>
      ELSE IF Reaches(usage, th, "emergency")
        THEN << createAlert(metric, usage, th.emergency, "emergency", t) >>
      ELSE <<>>

\* one family's if / else-if chain of checkAlerts
FamilyAlerts(cfg, metric, usage, t) ==
  LET th == cfg.metrics[metric].thresholds
  IN  IF ~cfg.metrics[metric].enabled THEN <<>>
      ELSE IF Reaches(usage, th, "emergency")
        THEN << createAlert(metric, usage, th.emergency, "emergency", t) >>
      ELSE IF Reaches(usage, th, "critical")
        THEN << createAlert(metric, usage, th.critical, "critical", t) >>
      ELSE IF Reaches(usage, th, "warning")
        THEN << createAlert(metric, usage, th.warning, "warning", t) >>
      ELSE <<>>

\* the alerts checkAlerts creates for a snapshot, in the order it pushes them
checkAlerts(cfg, m, t) ==
  FamilyAlerts(cfg, "cpu", m.cpu.usage, t)
    \o FamilyAlerts(cfg, "memory", m.memory.usage, t)
    \o FamilyAlerts(cfg, "disk", m.disk.usage, t)

(***************************************************************************)
(* Store: eviction and query                                               *)
(***************************************************************************)
\* config.metrics.<f>.retention || 7
RetentionOr(cfg, f) ==
  LET fc == cfg.metrics[f]
  IN  IF "retention" \in DOMAIN fc /\ fc.retention # 0 THEN fc.retention
      ELSE FallbackRetention

Max2(a, b) == IF a >= b THEN a ELSE b

maxRetention(cfg) ==
  Max2(Max2(RetentionOr(cfg, "cpu"), RetentionOr(cfg, "memory")),
       Max2(RetentionOr(cfg, "disk"), RetentionOr(cfg, "network")))

\* cutoffTime of cleanupOldMetrics, in seconds
cutoffTime(cfg, t) == t - maxRetention(cfg) * SecondsPerDay

\* seeded fault: the alert cutoff taken at the metrics' fallback retention
alertCutoffTimeWeek(t) == t - FallbackRetention * SecondsPerDay

\* alertCutoffTime of cleanupOldMetrics, in seconds
alertCutoffTime(t) == t - AlertRetentionDays * SecondsPerDay

Newer(x, cutoff) == x.timestamp > cutoff

cleanupMetrics(ms, cfg, t) == SelectSeq(ms, LAMBDA m : Newer(m, cutoffTime(cfg, t)))
\* getAlerts(): a copy of the alert list
getAlerts(as) == as

cleanupAlerts(as, t) == SelectSeq(as, LAMBDA a : Newer(a, alertCutoffTime(t)))

\* seeded fault: InRange with an exclusive upper bound
InRangeHalfOpen(m, from, to) == m.timestamp >= from /\ m.timestamp < to

InRange(m, from, to) == m.timestamp >= from /\ m.timestamp <= to

\* getMetrics(timeRange) and getMetrics()
getMetricsRange(ms, from, to) == SelectSeq(ms, LAMBDA m : InRange(m, from, to))
getMetricsAll(ms) == ms

(***************************************************************************)
(* Analysis.  A mean is kept as the pair of its sum and its count; a test   *)
(* mean >= x is sum >= x * count.                                          *)
(***************************************************************************)
AnalysisWindow == 10
HealthWindow == 5

\* getAnalysis() on an empty store
Null == [null |-> TRUE]

\* a + b on numbers
Plus(a, b) ==
  IF a = NaN \/ b = NaN THEN NaN
  ELSE IF a = Infinity \/ b = Infinity THEN Infinity
  ELSE a + b

\* ms.slice(-n)
SliceLast(ms, n) ==
  IF Len(ms) <= n THEN ms ELSE SubSeq(ms, Len(ms) - n + 1, Len(ms))

\* ms.reduce((sum, m) => sum + m.<f>.usage, 0)
RECURSIVE UsageSum(_, _)
UsageSum(ms, f) ==
  IF ms = <<>> THEN 0
  ELSE Plus(UsageSum(SubSeq(ms, 1, Len(ms) - 1), f), ms[Len(ms)][f].usage)

\* sum / count of the usage of family f over ms
Mean(ms, f) == [sum |-> UsageSum(ms, f), count |-> Len(ms)]

\* mean >= x
MeanGeq(mean, x) == Geq(mean.sum, x * mean.count)

\* seeded fault: calculateOverallHealth with cpu tested against memory's limits
calculateOverallHealthCpu95(ms) ==
  LET recent == SliceLast(ms, HealthWindow)
      avgCpu == Mean(recent, "cpu")
      avgMemory == Mean(recent, "memory")
      avgDisk == Mean(recent, "disk")
  IN  IF recent = <<>> THEN "healthy"
      ELSE IF MeanGeq(avgCpu, 95) \/ MeanGeq(avgMemory, 95) \/ MeanGeq(avgDisk, 95)
        THEN "unhealthy"
      ELSE IF MeanGeq(avgCpu, 85) \/ MeanGeq(avgMemory, 85) \/ MeanGeq(avgDisk, 85)
        THEN "degraded"
      ELSE "healthy"

calculateOverallHealth(ms) ==
  LET recent == SliceLast(ms, HealthWindow)
      avgCpu == Mean(recent, "cpu")
      avgMemory == Mean(recent, "memory")
      avgDisk == Mean(recent, "disk")
  IN  IF recent = <<>> THEN "healthy"
      ELSE IF MeanGeq(avgCpu, 90) \/ MeanGeq(avgMemory, 95) \/ MeanGeq(avgDisk, 95)
        THEN "unhealthy"
      ELSE IF MeanGeq(avgCpu, 80) \/ MeanGeq(avgMemory, 85) \/ MeanGeq(avgDisk, 85)
        THEN "degraded"
      ELSE "healthy"

\* Math.max(0, 100 - mean), times the count of the mean
FamilyScore(mean) ==
  IF mean.sum = NaN THEN NaN
  ELSE IF mean.sum = Infinity THEN 0
  ELSE Max2(0, 100 * mean.count - mean.sum)

\* Math.round(num / den) for num >= 0 and den > 0
RoundDiv(num, den) ==
  IF num = NaN THEN NaN ELSE (2 * num + den) \div (2 * den)

calculateHealthScore(ms) ==
  LET recent == SliceLast(ms, HealthWindow)
      cpuScore == FamilyScore(Mean(recent, "cpu"))
      memoryScore == FamilyScore(Mean(recent, "memory"))
      diskScore == FamilyScore(Mean(recent, "disk"))
  IN  IF recent = <<>> THEN 100
      ELSE RoundDiv(Plus(Plus(cpuScore, memoryScore), diskScore), 3 * Len(recent))

\* the texts pushed by identifyKeyIssues / generateRecommendations
Findings(ms, cpuText, memoryText, diskText) ==
  LET recent == SliceLast(ms, HealthWindow)
  IN  IF recent = <<>> THEN <<>>
      ELSE (IF MeanGeq(Mean(recent, "cpu"), 80) THEN << cpuText >> ELSE <<>>)
        \o (IF MeanGeq(Mean(recent, "memory"), 85) THEN << memoryText >> ELSE <<>>)
        \o (IF MeanGeq(Mean(recent, "disk"), 85) THEN << diskText >> ELSE <<>>)

\* seeded fault: identifyKeyIssues reporting cpu from an average of 90
identifyKeyIssuesCpu90(ms) ==
  LET recent == SliceLast(ms, HealthWindow)
  IN  IF recent = <<>> THEN <<>>
      ELSE (IF MeanGeq(Mean(recent, "cpu"), 90)
              THEN << "High CPU usage detected" >> ELSE <<>>)
        \o (IF MeanGeq(Mean(recent, "memory"), 85)
              THEN << "High memory usage detected" >> ELSE <<>>)
        \o (IF MeanGeq(Mean(recent, "disk"), 85)
              THEN << "High disk usage detected" >> ELSE <<>>)

identifyKeyIssues(ms) ==
  Findings(ms, "High CPU usage detected", "High memory usage detected",
           "High disk usage detected")

generateRecommendations(ms) ==
  Findings(ms, "Consider optimizing CPU-intensive processes",
           "Consider increasing memory or optimizing memory usage",
           "Consider cleaning up disk space or expanding storage")

\* seeded fault: calculateTrend calling a difference of exactly 5 stable
calculateTrendInclusive(ms, f) ==
  LET half == Len(ms) \div 2
      first == Mean(SubSeq(ms, 1, half), f)
      second == Mean(SubSeq(ms, half + 1, Len(ms)), f)
      diff == second.sum * first.count - first.sum * second.count
      bound == 5 * first.count * second.count
  IN  IF Len(ms) < 2 THEN "stable"
      ELSE IF first.sum = NaN \/ second.sum = NaN THEN "decreasing"
      ELSE IF first.sum = Infinity THEN "decreasing"
      ELSE IF second.sum = Infinity THEN "increasing"
      ELSE IF diff <= bound /\ 0 - diff <= bound THEN "stable"
      ELSE IF diff > 0 THEN "increasing" ELSE "decreasing"

\* calculateTrend on the usage of family f over ms
calculateTrend(ms, f) ==
  LET half == Len(ms) \div 2
      first == Mean(SubSeq(ms, 1, half), f)
      second == Mean(SubSeq(ms, half + 1, Len(ms)), f)
      \* (secondAvg - firstAvg) times both counts
      diff == second.sum * first.count - first.sum * second.count
      bound == 5 * first.count * second.count
  IN  IF Len(ms) < 2 THEN "stable"
      ELSE IF first.sum = NaN \/ second.sum = NaN THEN "decreasing"
      ELSE IF first.sum = Infinity THEN "decreasing"
      ELSE IF second.sum = Infinity THEN "increasing"
      ELSE IF diff < bound /\ 0 - diff < bound THEN "stable"
      ELSE IF diff > 0 THEN "increasing" ELSE "decreasing"

\* the component state of a usage with the limits of healthCheck
ComponentHealth(usage, unhealthyAt, degradedAt) ==
  IF Geq(usage, unhealthyAt) THEN "unhealthy"
  ELSE IF Geq(usage, degradedAt) THEN "degraded" ELSE "healthy"

\* seeded fault: the components classified from the oldest snapshot
healthComponentsOldest(ms, running) ==
  [ systemMonitor |-> IF running THEN "healthy" ELSE "unhealthy",
    cpu |-> IF ms = <<>> THEN "healthy"
            ELSE ComponentHealth(ms[1].cpu.usage, 90, 80),
    memory |-> IF ms = <<>> THEN "healthy"
               ELSE ComponentHealth(ms[1].memory.usage, 95, 85),
    disk |-> IF ms = <<>> THEN "healthy"
             ELSE ComponentHealth(ms[1].disk.usage, 95, 85),
    network |-> "healthy" ]

\* health.components of healthCheck: lastMetric is metrics.slice(-1)[0]
healthComponents(ms, running) ==
  LET lastMetric == ms[Len(ms)]
  IN  [ systemMonitor |-> IF running THEN "healthy" ELSE "unhealthy",
        cpu |-> IF ms = <<>> THEN "healthy"
                ELSE ComponentHealth(lastMetric.cpu.usage, 90, 80),
        memory |-> IF ms = <<>> THEN "healthy"
                   ELSE ComponentHealth(lastMetric.memory.usage, 95, 85),
        disk |-> IF ms = <<>> THEN "healthy"
                 ELSE ComponentHealth(lastMetric.disk.usage, 95, 85),
        network |-> "healthy" ]

\* health.metrics of healthCheck
healthCounters(ms, running, started, as, t) ==
  [ uptime |-> IF running THEN (t - started) * MsPerSecond ELSE 0,
    metricsCollected |-> Len(ms),
    alertsGenerated |-> Len(as),
    lastMetricTime |-> IF ms = <<>> THEN Null ELSE ms[Len(ms)].timestamp ]

\* seeded fault: healthCheck deriving the overall status without a snapshot too
healthCheckAlwaysOverall(ms, running, started, as, t) ==
  LET states == {healthComponents(ms, running)[c] :
                   c \in DOMAIN healthComponents(ms, running)}
  IN  [ status |-> IF "unhealthy" \in states THEN "unhealthy"
                   ELSE IF "degraded" \in states THEN "degraded" ELSE "healthy",
        components |-> healthComponents(ms, running),
        metrics |-> healthCounters(ms, running, started, as, t),
        timestamp |-> t ]

\* seeded fault: healthCheck leaving systemMonitor out of the overall status
healthCheckResourcesOnly(ms, running, started, as, t) ==
  LET states == {healthComponents(ms, running)[c] :
                   c \in {"cpu", "memory", "disk", "network"}}
  IN  [ status |-> IF ms = <<>> THEN "healthy"
                   ELSE IF "unhealthy" \in states THEN "unhealthy"
                   ELSE IF "degraded" \in states THEN "degraded" ELSE "healthy",
        components |-> healthComponents(ms, running),
        metrics |-> healthCounters(ms, running, started, as, t),
        timestamp |-> t ]

\* healthCheck() at time t on the store ms and the alert list as of a monitor
\* whose isRunning is running and whose startTime is started
healthCheck(ms, running, started, as, t) ==
  LET states == {healthComponents(ms, running)[c] :
                   c \in DOMAIN healthComponents(ms, running)}
  IN  [ status |-> IF ms = <<>> THEN "healthy"
                   ELSE IF "unhealthy" \in states THEN "unhealthy"
                   ELSE IF "degraded" \in states THEN "degraded" ELSE "healthy",
        components |-> healthComponents(ms, running),
        metrics |-> healthCounters(ms, running, started, as, t),
        timestamp |-> t ]

\* seeded fault: getAnalysis averaging over the whole store
getAnalysisWholeStore(ms) ==
  IF ms = <<>> THEN Null
  ELSE [ summary |-> [ overallHealth |-> calculateOverallHealth(ms),
                       score |-> calculateHealthScore(ms),
                       keyIssues |-> identifyKeyIssues(ms),
                       recommendations |-> generateRecommendations(ms) ],
         trends |-> [f \in {"cpu", "memory", "disk"} |-> calculateTrend(ms, f)],
         averages |-> [f \in {"cpu", "memory", "disk"} |-> Mean(ms, f)] ]

getAnalysis(ms) ==
  LET recentMetrics == SliceLast(ms, AnalysisWindow)
  IN  IF ms = <<>> THEN Null
      ELSE [ summary |-> [ overallHealth |-> calculateOverallHealth(ms),
                           score |-> calculateHealthScore(ms),
                           keyIssues |-> identifyKeyIssues(ms),
                           recommendations |-> generateRecommendations(ms) ],
             trends |-> [f \in {"cpu", "memory", "disk"} |->
                           calculateTrend(recentMetrics, f)],
             averages |-> [f \in {"cpu", "memory", "disk"} |->
                             Mean(recentMetrics, f)] ]

(***************************************************************************)
(* State                                                                   *)
(***************************************************************************)
VARIABLES
  now,               \* Date.now(), seconds
  alive,             \* the Node process has not been terminated
  isRunning,         \* SystemMonitor.isRunning
  intervalId,        \* SystemMonitor.intervalId; NoTimer is undefined
  config,            \* SystemMonitor.config
  startTime,         \* SystemMonitor.startTime
  metrics,           \* SystemMonitor.metrics, the store
  alerts,            \* SystemMonitor.alerts
  lastNetworkStats,  \* SystemMonitor.lastNetworkStats
  timers,            \* the runtime's active setInterval timers
  starting,          \* start() calls suspended on si.networkStats()
  calls,             \* collectMetrics() calls in flight, oldest first
  hasErrorListener,  \* an 'error' listener is registered
  flaky,             \* the families whose provider call may reject in this run
  lastOp,            \* the handler that took the last step
  emitted            \* the events that step emitted, in order

vars == << now, alive, isRunning, intervalId, config, startTime, metrics,
           alerts, lastNetworkStats, timers, starting, calls,
           hasErrorListener, flaky, lastOp, emitted >>

monitor == << isRunning, intervalId, config, startTime, metrics, alerts,
              lastNetworkStats >>

env == << hasErrorListener, flaky >>

NoTimer == 0

\* configurations given to the constructor
InitConfigs == { [interval |-> 1000] }

\* the provider's reliability: at most one family fails in a run
FlakySets == {{}} \cup {{f} : f \in Families}

Event(type, data) == [type |-> type, data |-> data]

\* the state after `new SystemMonitor(c)`
Constructed(c) ==
  /\ now = 0
  /\ alive = TRUE
  /\ isRunning = FALSE
  /\ intervalId = NoTimer
  /\ config = mergeDefaultConfig(c)
  /\ startTime = 0
  /\ metrics = <<>>
  /\ alerts = <<>>
  /\ lastNetworkStats = <<>>
  /\ timers = {}
  /\ starting = 0
  /\ calls = <<>>
  /\ lastOp = "constructor"
  /\ emitted = <<>>

Init ==
  /\ \E c \in InitConfigs : Constructed(c)
  /\ hasErrorListener \in BOOLEAN
  /\ flaky \in FlakySets
  /\ flaky = {} => hasErrorListener

(***************************************************************************)
(* Lifecycle                                                               *)
(***************************************************************************)
FreshTimerId == CHOOSE i \in 1..(Cardinality(timers) + 1) : \A t \in timers : t.id # i

\* setInterval(callback, config.interval) at time t
NewTimer(cfg, t) ==
  [id |-> FreshTimerId, period |-> cfg.interval \div MsPerSecond,
   due |-> t + cfg.interval \div MsPerSecond]

\* start(), lines 234-245: install the timer, emit 'started'
InstallTimer ==
  /\ intervalId' = NewTimer(config, now).id
  /\ timers' = timers \cup {NewTimer(config, now)}
  /\ emitted' = << Event("started", now) >>

\* seeded fault: start() without its `if (this.isRunning) return`
StartUnguarded ==
  /\ alive
  /\ lastOp' = "start"
  /\ Cardinality(timers) + starting < MaxTimers
  /\ startTime' = now
  /\ isRunning' = TRUE
  /\ IF config.metrics.network.enabled
       THEN /\ starting' = starting + 1
            /\ emitted' = <<>>
            /\ UNCHANGED << intervalId, timers >>
       ELSE /\ InstallTimer
            /\ UNCHANGED starting
  /\ UNCHANGED << now, alive, config, metrics, alerts, lastNetworkStats, calls, env >>

\* start() up to its first await
Start ==
  /\ alive
  /\ lastOp' = "start"
  /\ IF isRunning
       THEN /\ emitted' = <<>>
            /\ UNCHANGED << isRunning, intervalId, startTime, timers, starting >>
       ELSE /\ Cardinality(timers) + starting < MaxTimers
            /\ startTime' = now
            /\ isRunning' = TRUE
            /\ IF config.metrics.network.enabled
                 THEN /\ starting' = starting + 1
                      /\ emitted' = <<>>
                      /\ UNCHANGED << intervalId, timers >>
                 ELSE /\ InstallTimer
                      /\ UNCHANGED starting
  /\ UNCHANGED << now, alive, config, metrics, alerts, lastNetworkStats, calls, env >>

\* the outcomes of a provider call for family f
ProviderOutcomes(f, readings) ==
  IF f \in flaky THEN Outcomes(readings) ELSE {Resolved(r) : r \in readings}

\* seeded fault: start() letting the failure of its baseline call reach the
\* outer catch
StartResumeRethrow ==
  /\ alive
  /\ starting > 0
  /\ lastOp' = "startResume"
  /\ starting' = starting - 1
  /\ \E o \in ProviderOutcomes("network", NetReadings) :
       IF o.ok
         THEN /\ lastNetworkStats' = o.value
              /\ InstallTimer
              /\ UNCHANGED isRunning
         ELSE /\ isRunning' = FALSE
              /\ emitted' = <<>>
              /\ UNCHANGED << lastNetworkStats, intervalId, timers >>
  /\ UNCHANGED << now, alive, config, startTime, metrics, alerts, calls, env >>

\* start() resumes from `await si.networkStats()`
StartResume ==
  /\ alive
  /\ starting > 0
  /\ lastOp' = "startResume"
  /\ starting' = starting - 1
  /\ \E o \in ProviderOutcomes("network", NetReadings) :
       lastNetworkStats' = IF o.ok THEN o.value ELSE <<>>
  /\ InstallTimer
  /\ UNCHANGED << now, alive, isRunning, config, startTime, metrics, alerts,
                  calls, env >>

\* clearInterval(id)
clearInterval(ts, id) == {t \in ts : t.id # id}

\* seeded fault: stop() clearing the store and the alert list
StopClearing ==
  /\ alive
  /\ lastOp' = "stop"
  /\ IF ~isRunning
       THEN /\ emitted' = <<>>
            /\ UNCHANGED << isRunning, intervalId, timers, metrics, alerts >>
       ELSE /\ isRunning' = FALSE
            /\ timers' = IF intervalId # NoTimer THEN clearInterval(timers, intervalId)
                         ELSE timers
            /\ intervalId' = NoTimer
            /\ metrics' = <<>>
            /\ alerts' = <<>>
            /\ emitted' = << Event("stopped", now) >>
  /\ UNCHANGED << now, alive, config, startTime, lastNetworkStats, starting,
                  calls, env >>

Stop ==
  /\ alive
  /\ lastOp' = "stop"
  /\ IF ~isRunning
       THEN /\ emitted' = <<>>
            /\ UNCHANGED << isRunning, intervalId, timers >>
       ELSE /\ isRunning' = FALSE
            /\ timers' = IF intervalId # NoTimer THEN clearInterval(timers, intervalId)
                         ELSE timers
            /\ intervalId' = NoTimer
            /\ emitted' = << Event("stopped", now) >>
  /\ UNCHANGED << now, alive, config, startTime, metrics, alerts,
                  lastNetworkStats, starting, calls, env >>

\* seeded fault: updateConfig without its emit
updateConfigSilent(p) ==
  /\ alive
  /\ lastOp' = "updateConfig"
  /\ config' = mergeDefaultConfig(Spread(config, p))
  /\ emitted' = <<>>
  /\ UNCHANGED << now, alive, isRunning, intervalId, startTime, metrics, alerts,
                  lastNetworkStats, timers, starting, calls, env >>

\* updateConfig, lines 611-614
updateConfig(p) ==
  /\ alive
  /\ lastOp' = "updateConfig"
  /\ config' = mergeDefaultConfig(Spread(config, p))
  /\ emitted' = << Event("configUpdated", config') >>
  /\ UNCHANGED << now, alive, isRunning, intervalId, startTime, metrics, alerts,
                  lastNetworkStats, timers, starting, calls, env >>

\* time passes
Advance ==
  /\ alive
  /\ now < MaxNow
  /\ now' = now + 1
  /\ lastOp' = "clock"
  /\ emitted' = <<>>
  /\ UNCHANGED << alive, monitor, timers, starting, calls, env >>

(***************************************************************************)
(* The tick: setInterval callback -> collectMetrics                        *)
(***************************************************************************)
NextStage(f) ==
  CASE f = "cpu" -> "memory" [] f = "memory" -> "disk" [] f = "disk" -> "network"

Readings(f) ==
  CASE f = "cpu" -> CpuReadings [] f = "memory" -> MemReadings
    [] f = "disk" -> DiskReadings [] f = "network" -> NetReadings

\* the value get<F>Metrics returns when the provider resolves with v
FamilyRecord(f, v) ==
  CASE f = "cpu" -> CpuRecord(v) [] f = "memory" -> MemoryRecord(v)
    [] f = "disk" -> DiskRecord(v) [] f = "network" -> NetworkRecord(v)

\* the value get<F>Metrics returns when the family is disabled or the provider fails
ZeroRecord(f) ==
  CASE f = "cpu" -> ZeroCpu [] f = "memory" -> ZeroMemory
    [] f = "disk" -> ZeroDisk [] f = "network" -> ZeroNetwork

RemoveAt(s, i) == SubSeq(s, 1, i - 1) \o SubSeq(s, i + 1, Len(s))

\* seeded fault: get<F>Metrics calling the provider of a disabled family too
EnterStageAlways(c, f) == [c EXCEPT !.pc = f, !.called = TRUE]

\* get<F>Metrics on entry: the provider is called iff the family is enabled
EnterStage(c, f) == [c EXCEPT !.pc = f, !.called = config.metrics[f].enabled]

\* collectMetrics, lines 269-275, up to `await this.getCpuMetrics()`
NewCall ==
  EnterStage([pc |-> "cpu", called |-> FALSE, timestamp |-> now, cpu |-> ZeroCpu,
              memory |-> ZeroMemory, disk |-> ZeroDisk, network |-> ZeroNetwork],
             "cpu")

\* the snapshot a call has assembled
SnapshotOf(c) ==
  [timestamp |-> c.timestamp, cpu |-> c.cpu, memory |-> c.memory,
   disk |-> c.disk, network |-> c.network]

\* the interval callback of timer t runs: it calls collectMetrics
Fire(t) ==
  /\ t.due <= now
  /\ timers' = (timers \ {t}) \cup {[t EXCEPT !.due = now + t.period]}
  /\ IF isRunning
       THEN /\ Len(calls) < MaxCalls
            /\ Len(metrics) + Len(calls) < MaxStore
            /\ calls' = Append(calls, NewCall)
       ELSE UNCHANGED calls
  /\ lastOp' = "timer"
  /\ emitted' = <<>>
  /\ UNCHANGED << now, alive, monitor, starting, env >>

TimerFire == alive /\ \E t \in timers : Fire(t)

\* the outcomes the pending provider call of c may have
CallOutcomes(c) ==
  IF c.called THEN ProviderOutcomes(c.pc, Readings(c.pc)) ELSE NotCalled

Failed(c, o) == c.called /\ ~o.ok

StageResult(c, o) ==
  IF c.called /\ o.ok THEN FamilyRecord(c.pc, o.value) ELSE ZeroRecord(c.pc)

\* emit('error', e) without a listener throws e: it leaves get<F>Metrics, then
\* the catch of collectMetrics (292) and that of the interval callback (238)
\* rethrow it the same way, and the callback's promise is rejected with no
\* handler.  The runtime then terminates the process or only warns.
UnhandledRejection(i) ==
  /\ calls' = RemoveAt(calls, i)
  /\ emitted' = <<>>
  /\ alive' \in BOOLEAN
  /\ UNCHANGED << now, monitor, timers, starting, env >>

ErrorEvents(c, o) == IF Failed(c, o) THEN << Event("error", c.pc) >> ELSE <<>>

\* getCpuMetrics / getMemoryMetrics / getDiskMetrics of calls[i] resumes with
\* outcome o; the next family's getter is entered
ResumeFamilyAt(i, o) ==
  LET c == calls[i] IN
  /\ lastOp' = c.pc
  /\ IF Failed(c, o) /\ ~hasErrorListener
       THEN UnhandledRejection(i)
       ELSE /\ calls' = [calls EXCEPT ![i] =
                           EnterStage([c EXCEPT ![c.pc] = StageResult(c, o)],
                                      NextStage(c.pc))]
            /\ emitted' = ErrorEvents(c, o)
            /\ UNCHANGED << now, alive, monitor, timers, starting, env >>

ResumeFamily(f) ==
  /\ alive
  /\ \E i \in 1..Len(calls) :
       /\ calls[i].pc = f
       /\ \E o \in CallOutcomes(calls[i]) : ResumeFamilyAt(i, o)

ResumeCpu == ResumeFamily("cpu")
ResumeMemory == ResumeFamily("memory")
ResumeDisk == ResumeFamily("disk")

AlertEvents(as) == [k \in 1..Len(as) |-> Event("alert", as[k])]
MetricsEvents(m) == << Event("metrics", m), Event("metricsCollected", m) >>

\* seeded fault: collectMetrics evaluating alerts whatever alerts.enabled says
StoreAndEvaluateUnguarded(m) ==
  /\ metrics' = cleanupMetrics(Append(metrics, m), config, now)
  /\ alerts' = cleanupAlerts(alerts, now) \o checkAlerts(config, m, now)

\* seeded fault: collectMetrics keeping the alert list within maxAlertsPerHour
StoreAndEvaluateRateLimited(m) ==
  LET new == IF config.alerts.enabled THEN checkAlerts(config, m, now) ELSE <<>>
      kept == cleanupAlerts(alerts, now)
  IN  /\ metrics' = cleanupMetrics(Append(metrics, m), config, now)
      /\ alerts' = IF Len(kept) + Len(new) <= config.alerts.maxAlertsPerHour
                     THEN kept \o new ELSE kept

\* seeded fault: collectMetrics emitting its alerts without listing them
StoreAndEvaluateUnlisted(m) ==
  /\ metrics' = cleanupMetrics(Append(metrics, m), config, now)
  /\ alerts' = cleanupAlerts(alerts, now)

\* collectMetrics lines 281-287 for snapshot m: push, cleanupOldMetrics,
\* checkAlerts when alerts are enabled
StoreAndEvaluate(m) ==
  LET new == IF config.alerts.enabled THEN checkAlerts(config, m, now) ELSE <<>>
  IN  /\ metrics' = cleanupMetrics(Append(metrics, m), config, now)
      /\ alerts' = cleanupAlerts(alerts, now) \o new

\* getNetworkMetrics of calls[i] resumes with outcome o; collectMetrics goes
\* on to `await this.checkAlerts(metrics)`, or to its end when alerts are disabled
ResumeNetworkAt(i, o) ==
  LET c == calls[i]
      m == SnapshotOf([c EXCEPT !.network = StageResult(c, o)])
  IN
  /\ lastOp' = "network"
  /\ IF Failed(c, o) /\ ~hasErrorListener
       THEN UnhandledRejection(i)
       ELSE /\ lastNetworkStats' = IF c.called /\ o.ok THEN o.value
                                   ELSE lastNetworkStats
            /\ StoreAndEvaluate(m)
            /\ IF config.alerts.enabled
                 THEN /\ calls' = [calls EXCEPT ![i] =
                                     [c EXCEPT !.pc = "emit", !.called = FALSE,
                                               !.network = m.network]]
                      /\ emitted' = ErrorEvents(c, o) \o
                                      AlertEvents(checkAlerts(config, m, now))
                 ELSE /\ calls' = RemoveAt(calls, i)
                      /\ emitted' = ErrorEvents(c, o) \o MetricsEvents(m)
            /\ UNCHANGED << now, alive, isRunning, intervalId, config,
                            startTime, timers, starting, env >>

ResumeNetwork ==
  /\ alive
  /\ \E i \in 1..Len(calls) :
       /\ calls[i].pc = "network"
       /\ \E o \in CallOutcomes(calls[i]) : ResumeNetworkAt(i, o)

\* collectMetrics resumes from `await this.checkAlerts(metrics)`, lines 289-290
ResumeEmit ==
  /\ alive
  /\ \E i \in 1..Len(calls) :
       /\ calls[i].pc = "emit"
       /\ calls' = RemoveAt(calls, i)
       /\ emitted' = MetricsEvents(SnapshotOf(calls[i]))
  /\ lastOp' = "emit"
  /\ UNCHANGED << now, alive, monitor, timers, starting, env >>

Next ==
  \/ Start \/ StartResume \/ Stop \/ Advance
  \/ TimerFire \/ ResumeCpu \/ ResumeMemory \/ ResumeDisk \/ ResumeNetwork
  \/ ResumeEmit

Spec == Init /\ [][Next]_vars

(***************************************************************************)
(* Configuration updates                                                   *)
(***************************************************************************)
\* partial configurations given to updateConfig
UpdatePartials == { [interval |-> 2000], [alerts |-> [enabled |-> FALSE]] }

UpdateConfig == \E p \in UpdatePartials : updateConfig(p)

InitConfig ==
  /\ \E c \in InitConfigs : Constructed(c)
  /\ hasErrorListener = TRUE
  /\ flaky = {}

NextConfig == Next \/ UpdateConfig

SpecConfig == InitConfig /\ [][NextConfig]_vars

\* configurations given to the constructor, the second one customised
CustomConfigs ==
  { [interval |-> 1000],
    [ interval |-> 1000,
      metrics |-> [memory |-> [thresholds |->
                     [warning |-> 50, critical |-> 60, emergency |-> 70]]],
      alerts |-> [maxAlertsPerHour |-> 5] ] }

\* partial configurations given to updateConfig, flat and nested
NestedPartials ==
  UpdatePartials \cup
    { [debug |-> TRUE],
      [metrics |-> [cpu |-> [thresholds |-> [warning |-> 60]]]],
      [metrics |-> [disk |-> [enabled |-> FALSE]]] }

UpdateNested == \E p \in NestedPartials : updateConfig(p)

InitUpdate ==
  /\ \E c \in CustomConfigs : Constructed(c)
  /\ hasErrorListener = TRUE
  /\ flaky = {}

\* the lifecycle and updateConfig, no tick
NextUpdate == Start \/ StartResume \/ Stop \/ UpdateNested

SpecUpdate == InitUpdate /\ [][NextUpdate]_vars

(***************************************************************************)
(* Retention: a monitor that is not stopped, on a reliable provider and a   *)
(* clock that advances by days                                             *)
(***************************************************************************)
RetentionPartial(r) ==
  [ interval |-> 1000,
    metrics |-> [ cpu |-> [retention |-> r[1]], memory |-> [retention |-> r[2]],
                  disk |-> [retention |-> r[3]], network |-> [retention |-> r[4]] ] ]

\* per-family retention days given to the constructor
RetentionChoices ==
  { <<7, 7, 7, 7>>, <<1, 1, 1, 1>>, <<2, 1, 1, 1>>, <<0, 0, 0, 0>>, <<0, 1, 1, 1>> }

AdvanceDay ==
  /\ alive
  /\ now < MaxDays * SecondsPerDay
  /\ now' = now + SecondsPerDay
  /\ lastOp' = "clock"
  /\ emitted' = <<>>
  /\ UNCHANGED << alive, monitor, timers, starting, calls, env >>

InitDays ==
  /\ \E r \in RetentionChoices : Constructed(RetentionPartial(r))
  /\ hasErrorListener = TRUE
  /\ flaky = {}

NextDays ==
  \/ Start \/ StartResume \/ AdvanceDay
  \/ TimerFire \/ ResumeCpu \/ ResumeMemory \/ ResumeDisk \/ ResumeNetwork
  \/ ResumeEmit

SpecDays == InitDays /\ [][NextDays]_vars

(***************************************************************************)
(* Alert evaluation on arbitrary snapshots and thresholds                  *)
(***************************************************************************)
Levels == {"warning", "critical", "emergency"}

\* usage percents of the evaluated snapshots
EvalUsages == {0, 69, 70, 85, 90, 95, 100}

EvalSnapshots ==
  { [timestamp |-> 0, cpu |-> [usage |-> u[1], cores |-> 1],
     memory |-> [ZeroMemory EXCEPT !.usage = u[2]],
     disk |-> [ZeroDisk EXCEPT !.usage = u[3]],
     network |-> ZeroNetwork] : u \in EvalUsages \X EvalUsages \X EvalUsages }

\* threshold triples given to the constructor, well-ordered or not
EvalThresholds ==
  { [warning |-> 70, critical |-> 85, emergency |-> 95],
    [warning |-> 90, critical |-> 70, emergency |-> 95],
    [warning |-> 95, critical |-> 85, emergency |-> 70],
    [warning |-> 85, critical |-> 85, emergency |-> 85] }

EvalConfigs ==
  { [ metrics |-> [ cpu |-> [thresholds |-> t], memory |-> [thresholds |-> t],
                    disk |-> [thresholds |-> t, enabled |-> e] ] ]
      : t \in EvalThresholds, e \in BOOLEAN }

\* collectMetrics lines 281-287 applied to a snapshot m
Evaluate ==
  /\ metrics = <<>>
  /\ \E m \in EvalSnapshots :
       /\ StoreAndEvaluate(m)
       /\ emitted' = AlertEvents(IF config.alerts.enabled
                                   THEN checkAlerts(config, m, now) ELSE <<>>)
  /\ lastOp' = "evaluate"
  /\ UNCHANGED << now, alive, isRunning, intervalId, config, startTime,
                  lastNetworkStats, timers, starting, calls, env >>

InitEval ==
  /\ \E c \in EvalConfigs : Constructed(c)
  /\ hasErrorListener = TRUE
  /\ flaky = {}

NextEval == Evaluate

SpecEval == InitEval /\ [][NextEval]_vars

(***************************************************************************)
(* Collection on arbitrary provider readings: a running monitor whose tick *)
(* gets all its provider answers before any other handler runs.  The       *)
(* memory and disk readings avoid exact .5 ties of used / total * 100,     *)
(* where the result depends on the floating-point rounding of the          *)
(* quotient.                                                               *)
(***************************************************************************)
\* si.currentLoad(): loads 0, 25.4, 25.5, 25.6, 99.5 and 100
CollectCpu == { [load |-> l, cores |-> 1] : l \in {0, 254, 255, 256, 995, 1000} }

\* si.mem(), including the all-zero answer of a platform it cannot read
CollectMem ==
  { [total |-> t[1], used |-> t[2], free |-> t[1] - t[2], available |-> t[1] - t[2]] :
      t \in { <<8, 4>>, <<3, 1>>, <<3, 2>>, <<7, 6>>, <<8, 8>>, <<8, 0>>, <<0, 0>> } }

Fs(mount, size, used) ==
  [mount |-> mount, size |-> size, used |-> used, available |-> size - used]

\* si.fsSize(): no file system, one, an empty pseudo file system, several
CollectDisk ==
  { <<>>,
    << Fs("/", 100, 50) >>,
    << Fs("/proc", 0, 0) >>,
    << Fs("/", 3, 1), Fs("/proc", 0, 0) >>,
    << Fs("/", 3, 2), Fs("/data", 4, 4) >>,
    << Fs("/", 100, 0), Fs("/data", 7, 6) >> }

\* get<F>Metrics when the provider resolves with v
Collected(f, v) ==
  IF config.metrics[f].enabled THEN FamilyRecord(f, v) ELSE ZeroRecord(f)

\* collectMetrics, lines 268-290, with the provider resolving cpu, memory, disk
\* and network with c, m, d and n
CollectWith(c, m, d, n) ==
  LET snapshot == [timestamp |-> now, cpu |-> Collected("cpu", c),
                   memory |-> Collected("memory", m), disk |-> Collected("disk", d),
                   network |-> Collected("network", n)]
  IN  /\ alive
      /\ isRunning
      /\ starting = 0
      /\ calls = <<>>
      /\ StoreAndEvaluate(snapshot)
      /\ lastNetworkStats' = IF config.metrics.network.enabled THEN n
                             ELSE lastNetworkStats
      /\ emitted' = AlertEvents(IF config.alerts.enabled
                                  THEN checkAlerts(config, snapshot, now) ELSE <<>>)
                      \o MetricsEvents(snapshot)
      /\ lastOp' = "collect"
      /\ UNCHANGED << now, alive, isRunning, intervalId, config, startTime,
                      timers, starting, calls, env >>

\* the first tick of the monitor
CollectOnce ==
  /\ metrics = <<>>
  /\ \E c \in CollectCpu, m \in CollectMem, d \in CollectDisk, n \in NetReadings :
       CollectWith(c, m, d, n)

InitCollect ==
  /\ \E c \in InitConfigs : Constructed(c)
  /\ hasErrorListener = TRUE
  /\ flaky = {}

NextCollect == Start \/ StartResume \/ CollectOnce

SpecCollect == InitCollect /\ [][NextCollect]_vars

(***************************************************************************)
(* Analysis of a store that has grown past both windows: a running monitor  *)
(* with one of cpu, memory and disk enabled, whose ticks do not overlap     *)
(***************************************************************************)
MaxHistory == 11     \* a tick runs only while the store is below this size

\* si.currentLoad(): loads 50 and 100
AnalysisCpu == { [load |-> l, cores |-> 1] : l \in {500, 1000} }

\* si.mem(): 45 percent and 95 percent
AnalysisMem ==
  { [total |-> t[1], used |-> t[2], free |-> t[1] - t[2], available |-> t[1] - t[2]] :
      t \in { <<100, 45>>, <<100, 95>> } }

\* si.fsSize(): 45 percent and 95 percent
AnalysisDisk == { << Fs("/", 100, 45) >>, << Fs("/", 100, 95) >> }

\* the constructor argument that enables family f alone of cpu, memory and
\* disk, alerts off
OnlyFamily(f) ==
  [ interval |-> 1000,
    metrics |-> [ cpu |-> [enabled |-> f = "cpu"],
                  memory |-> [enabled |-> f = "memory"],
                  disk |-> [enabled |-> f = "disk"] ],
    alerts |-> [enabled |-> FALSE] ]

\* a further tick of the monitor
CollectMore ==
  /\ Len(metrics) < MaxHistory
  /\ \E c \in AnalysisCpu, m \in AnalysisMem, d \in AnalysisDisk, n \in NetReadings :
       CollectWith(c, m, d, n)

InitAnalysis ==
  /\ \E f \in {"cpu", "memory", "disk"} : Constructed(OnlyFamily(f))
  /\ hasErrorListener = TRUE
  /\ flaky = {}

NextAnalysis == Start \/ StartResume \/ CollectMore

SpecAnalysis == InitAnalysis /\ [][NextAnalysis]_vars

(***************************************************************************)
(* Health of a monitor that is started, ticks without overlap and is       *)
(* stopped, on readings around the limits of healthCheck                   *)
(***************************************************************************)
\* si.currentLoad(): loads 50, 79.4, 79.5, 89.4 and 89.5
HealthCpu == { [load |-> l, cores |-> 1] : l \in {500, 794, 795, 894, 895} }

\* si.mem(): 50, 84, 85, 94 and 95 percent, and the all-zero answer
HealthMem ==
  { [total |-> t[1], used |-> t[2], free |-> t[1] - t[2], available |-> t[1] - t[2]] :
      t \in { <<100, 50>>, <<100, 84>>, <<100, 85>>, <<100, 94>>, <<100, 95>>,
              <<0, 0>> } }

\* si.fsSize(): 50, 84, 85, 94 and 95 percent
HealthDisk == { << Fs("/", 100, u) >> : u \in {50, 84, 85, 94, 95} }

\* the answers of one tick: all three families at 50, or one of them elsewhere
HealthReadings ==
  LET mid == [cpu |-> [load |-> 500, cores |-> 1],
              memory |-> [total |-> 100, used |-> 50, free |-> 50, available |-> 50],
              disk |-> << Fs("/", 100, 50) >>]
  IN  {[mid EXCEPT !.cpu = c] : c \in HealthCpu}
        \cup {[mid EXCEPT !.memory = m] : m \in HealthMem}
        \cup {[mid EXCEPT !.disk = d] : d \in HealthDisk}

\* a tick of the monitor while the store is below MaxStore
CollectHealth ==
  /\ Len(metrics) < MaxStore
  /\ \E r \in HealthReadings, n \in NetReadings :
       CollectWith(r.cpu, r.memory, r.disk, n)

InitHealth ==
  /\ \E c \in InitConfigs : Constructed(c)
  /\ hasErrorListener = TRUE
  /\ flaky = {}

NextHealth == Start \/ StartResume \/ Stop \/ CollectHealth

SpecHealth == InitHealth /\ [][NextHealth]_vars

(***************************************************************************)
(* Disabled families: a monitor constructed with one family disabled,      *)
(* whose thresholds are all 0, on a reliable provider and the clock of     *)
(* days                                                                    *)
(***************************************************************************)
\* the constructor argument disabling family f, every threshold of f at 0
DisabledFamily(f) ==
  [ interval |-> 1000,
    metrics |-> [g \in {f} |->
                   [enabled |-> FALSE,
                    thresholds |-> [warning |-> 0, critical |-> 0, emergency |-> 0]]] ]

InitDisabled ==
  /\ \E f \in Families : Constructed(DisabledFamily(f))
  /\ hasErrorListener = TRUE
  /\ flaky = {}

SpecDisabled == InitDisabled /\ [][NextDays]_vars

(***************************************************************************)
(* Starting and stopping on a provider whose network call may fail          *)
(***************************************************************************)
InitStart ==
  /\ \E c \in InitConfigs : Constructed(c)
  /\ hasErrorListener = TRUE
  /\ flaky \in {{}, {"network"}}

NextStart == Start \/ StartResume \/ Stop \/ Advance

SpecStart == InitStart /\ [][NextStart]_vars

(***************************************************************************)
(* Alert settings: a monitor constructed with various values of the        *)
(* settings no code reads, or with alerts off, whose alerts are switched    *)
(* on and off and whose ticks do not overlap, one per second at most        *)
(***************************************************************************)
SettingsConfigs ==
  { [ interval |-> 1000 ],
    [ interval |-> 1000,
      alerts |-> [cooldownPeriod |-> "1h", maxAlertsPerHour |-> 1,
                  escalationEnabled |-> FALSE] ],
    [ interval |-> 1000, metrics |-> [cpu |-> [interval |-> 60000]] ],
    [ interval |-> 1000, alerts |-> [enabled |-> FALSE] ] }

\* si.currentLoad(): loads 50 and 90
SettingsCpu == { [load |-> l, cores |-> 1] : l \in {500, 900} }

\* a tick of the monitor, one interval or more after start() and after the
\* tick before it
CollectSettings ==
  /\ Len(metrics) < MaxStore
  /\ now > startTime
  /\ metrics # <<>> => now > metrics[Len(metrics)].timestamp
  /\ \E c \in SettingsCpu, m \in MemReadings, d \in DiskReadings, n \in NetReadings :
       CollectWith(c, m, d, n)

\* updateConfig({ alerts: { enabled: b } })
ToggleAlerts == \E b \in BOOLEAN : updateConfig([alerts |-> [enabled |-> b]])

InitSettings ==
  /\ \E c \in SettingsConfigs : Constructed(c)
  /\ hasErrorListener = TRUE
  /\ flaky = {}

NextSettings == Start \/ StartResume \/ Advance \/ CollectSettings \/ ToggleAlerts

SpecSettings == InitSettings /\ [][NextSettings]_vars

(***************************************************************************)
(* Alert retention: a monitor on a reliable provider reporting a cpu load  *)
(* of 90, whose ticks do not overlap, on a clock that advances by half     *)
(* the alert horizon                                                       *)
(***************************************************************************)
MaxHalves == 3       \* the clock stops after this many half horizons

\* half the alert horizon, in seconds
HalfHorizon == (AlertRetentionDays \div 2) * SecondsPerDay

\* retention days given to the constructor for all four families
HorizonRetentions == {1, 7, 60}

AdvanceHalf ==
  /\ alive
  /\ now < MaxHalves * HalfHorizon
  /\ now' = now + HalfHorizon
  /\ lastOp' = "clock"
  /\ emitted' = <<>>
  /\ UNCHANGED << alive, monitor, timers, starting, calls, env >>

\* a tick of the monitor, later than start() and than the tick before it
CollectLater ==
  /\ Len(metrics) < MaxStore
  /\ now > startTime
  /\ metrics # <<>> => now > metrics[Len(metrics)].timestamp
  /\ \E c \in CpuReadings, m \in MemReadings, d \in DiskReadings, n \in NetReadings :
       CollectWith(c, m, d, n)

InitHorizon ==
  /\ \E r \in HorizonRetentions : Constructed(RetentionPartial(<< r, r, r, r >>))
  /\ hasErrorListener = TRUE
  /\ flaky = {}

NextHorizon == Start \/ StartResume \/ AdvanceHalf \/ CollectLater

SpecHorizon == InitHorizon /\ [][NextHorizon]_vars

(***************************************************************************)
(* Ticks of a monitor that is not stopped, on a reliable provider and the  *)
(* clock of seconds                                                        *)
(***************************************************************************)
NextTicks ==
  \/ Start \/ StartResume \/ Advance
  \/ TimerFire \/ ResumeCpu \/ ResumeMemory \/ ResumeDisk \/ ResumeNetwork
  \/ ResumeEmit

SpecTicks == InitCollect /\ [][NextTicks]_vars

(***************************************************************************)
(* Analysis summary of a running monitor with every family enabled and     *)
(* alerts off, whose ticks do not overlap and read several families high   *)
(* at once                                                                 *)
(***************************************************************************)
MaxSummary == 6      \* a tick runs only while the store is below this size

\* the answers of one tick: [cpu load, memory used, disk used], out of 100
SummaryReadings == { <<50, 45, 45>>, <<100, 95, 45>>, <<100, 95, 95>>, <<50, 45, 95>> }

\* a further tick of the monitor
CollectSummary ==
  /\ Len(metrics) < MaxSummary
  /\ \E r \in SummaryReadings, n \in NetReadings :
       CollectWith([load |-> 10 * r[1], cores |-> 1],
                   [total |-> 100, used |-> r[2], free |-> 100 - r[2],
                    available |-> 100 - r[2]],
                   << Fs("/", 100, r[3]) >>, n)

InitSummary ==
  /\ Constructed([interval |-> 1000, alerts |-> [enabled |-> FALSE]])
  /\ hasErrorListener = TRUE
  /\ flaky = {}

NextSummary == Start \/ StartResume \/ CollectSummary

SpecSummary == InitSummary /\ [][NextSummary]_vars

(***************************************************************************)
(* Restarts: a monitor that is started, ticks without overlap, is stopped  *)
(* and started again, on the clock of seconds                              *)
(***************************************************************************)
NextRestart == Start \/ StartResume \/ Stop \/ Advance \/ CollectSettings

SpecRestart == InitCollect /\ [][NextRestart]_vars

(***************************************************************************)
(* Properties                                                              *)
(***************************************************************************)
EventTypes(es) == {es[k].type : k \in 1..Len(es)}

\* calls[i] resumes from its pending provider call with outcome o
ResumeAt(i, o) ==
  IF calls[i].pc = "network" THEN ResumeNetworkAt(i, o) ELSE ResumeFamilyAt(i, o)

AwaitingProvider(c) == c.pc \in Families

\* C1: while the monitor is stopped (from the return of stop() to the next
\* start()), no step changes the store or the alert list or emits an alert or
\* metricsCollected event: a collection that was suspended on a provider call
\* when stop() ran is discarded when it resumes.
C1_StoppedDiscardsInFlightTick ==
  [][ ~isRunning =>
        /\ metrics' = metrics
        /\ alerts' = alerts
        /\ EventTypes(emitted') \cap {"alert", "metricsCollected"} = {} ]_vars

\* C2: a step in which a provider call fails leaves the process alive, the
\* running flag and the timers as they were, and every collection whose last
\* provider call succeeds appends its snapshot to the store.
C2_FailureNeverStopsScheduler ==
  [][ \A i \in 1..Len(calls) :
        AwaitingProvider(calls[i]) =>
          \A o \in CallOutcomes(calls[i]) :
            ResumeAt(i, o) =>
              /\ Failed(calls[i], o) =>
                   /\ alive'
                   /\ isRunning' = isRunning
                   /\ intervalId' = intervalId
                   /\ timers' = timers
              /\ (calls[i].pc = "network" /\ ~Failed(calls[i], o)) =>
                   /\ Len(metrics') = Len(metrics) + 1
                   /\ metrics'[Len(metrics')].timestamp = calls[i].timestamp ]_vars

\* C3: when the provider call of family F fails in a tick, an error event for
\* F is emitted and the tick goes on with F's zero-value record: the other
\* families are still collected and keep their own values, and the snapshot
\* is appended.
C3_FailedFamilyFallsBackToZero ==
  [][ \A i \in 1..Len(calls) :
        AwaitingProvider(calls[i]) =>
          \A o \in CallOutcomes(calls[i]) :
            (Failed(calls[i], o) /\ ResumeAt(i, o)) =>
              LET c == calls[i] IN
              /\ \E k \in 1..Len(emitted') :
                   emitted'[k].type = "error" /\ emitted'[k].data = c.pc
              /\ IF c.pc = "network"
                   THEN /\ metrics' # <<>>
                        /\ metrics'[Len(metrics')] =
                             SnapshotOf([c EXCEPT !.network = ZeroNetwork])
                   ELSE /\ Len(calls') = Len(calls)
                        /\ calls'[i].pc = NextStage(c.pc)
                        /\ SnapshotOf(calls'[i]) =
                             SnapshotOf([c EXCEPT ![c.pc] = ZeroRecord(c.pc)]) ]_vars

\* C4: start() on a running monitor and stop() on a stopped monitor change
\* nothing (start time, timer, store, alert list, configuration) and emit
\* no event.
C4_LifecycleMisuseIsNoOp ==
  [][ /\ (isRunning /\ Start) =>
           (UNCHANGED << monitor, timers, starting, calls, alive >> /\ emitted' = <<>>)
      /\ (~isRunning /\ Stop) =>
           (UNCHANGED << monitor, timers, starting, calls, alive >> /\ emitted' = <<>>) ]_vars

\* start() has just returned from a running monitor whose timer is installed
C4_Witness ==
  /\ lastOp = "start"
  /\ isRunning
  /\ starting = 0
  /\ intervalId # NoTimer
  /\ emitted = <<>>

Rank(level) ==
  CASE level = "warning" -> 1 [] level = "critical" -> 2 [] level = "emergency" -> 3

\* the indexes of the alerts of family f in the alert list
AlertsOf(f) == {k \in 1..Len(alerts) : alerts[k].metric = f}

\* the severities whose threshold the usage of family f in snapshot m reaches
MetLevels(m, f) == {l \in Levels : m[f].usage >= config.metrics[f].thresholds[l]}

DefaultCpu90 ==
  /\ config.metrics.cpu.enabled
  /\ config.metrics.cpu.thresholds = DefaultConfig.metrics.cpu.thresholds
  /\ config.alerts.enabled
  /\ \A r \in CpuReadings : r.load = 900

C7_StoreTimeOrdered ==
  \A i \in 1..(Len(metrics) - 1) : metrics[i].timestamp <= metrics[i + 1].timestamp

\* C8: at most one collection is awaiting a provider call.
C8_AtMostOneTickInProgress ==
  Cardinality({i \in 1..Len(calls) : AwaitingProvider(calls[i])}) <= 1

Max4(r) == Max2(Max2(r[1], r[2]), Max2(r[3], r[4]))

\* the largest of the four configured retention values, in days
ConfiguredMaxRetention ==
  Max4(<< config.metrics.cpu.retention, config.metrics.memory.retention,
          config.metrics.disk.retention, config.metrics.network.retention >>)

\* C9: right after a tick's append and eviction, every snapshot in the store is
\* newer than now minus the largest configured retention (days, as time).
C9_RetainedWithinRetention ==
  lastOp = "network" =>
    \A i \in 1..Len(metrics) :
      metrics[i].timestamp > now - ConfiguredMaxRetention * SecondsPerDay

\* the k-th index, in increasing order, of a set of indexes
KthOf(idx, k) == CHOOSE i \in idx : Cardinality({j \in idx : j < i}) = k - 1

\* the instants a query range may name: each day's start, just before, just after
QueryTimes == {d * SecondsPerDay + e : d \in 0..MaxDays, e \in {0 - 1, 0, 1}}

\* C10: getMetrics({from, to}) is the store restricted to the snapshots with
\* from <= timestamp <= to, in store order; getMetrics() is the whole store.
C10_RangeQueryExact ==
  /\ getMetricsAll(metrics) = metrics
  /\ \A from \in QueryTimes, to \in QueryTimes :
       LET r == getMetricsRange(metrics, from, to)
           idx == {i \in 1..Len(metrics) :
                     from <= metrics[i].timestamp /\ metrics[i].timestamp <= to}
       IN  /\ Len(r) = Cardinality(idx)
           /\ \A k \in 1..Len(r) : r[k] = metrics[KthOf(idx, k)]

\* the store holds snapshots taken at two instants and a query whose upper
\* bound is the later instant returns that snapshot only
C10_Witness ==
  /\ Len(metrics) = 2
  /\ metrics[1].timestamp < metrics[2].timestamp
  /\ getMetricsRange(metrics, metrics[2].timestamp, metrics[2].timestamp)
       = << metrics[2] >>

\* u is num / den rounded to the nearest integer, a half going up:
\* u - 1/2 <= num / den < u + 1/2
NearestHalfUp(u, num, den) ==
  /\ 2 * u * den - den <= 2 * num
  /\ 2 * num < 2 * u * den + den

\* the sum of a field over the file systems of a reading, by index
RECURSIVE FieldTotal(_, _, _)
FieldTotal(fs, field, k) ==
  IF k = 0 THEN 0 ELSE fs[k][field] + FieldTotal(fs, field, k - 1)

\* the snapshot a step has just appended
Appended == metrics'[Len(metrics')]

\* C11: in the snapshot collected from readings with total > 0, memory usage is
\* used / total * 100 rounded to the nearest integer, disk usage the same
\* of the summed used and size, each device's usage the same of its own used
\* and size, and cpu usage the load rounded to the nearest integer with a
\* half going up (25.5 gives 26).
C11_UsageIsRoundedRatio ==
  [][ \A c \in CollectCpu, m \in CollectMem, d \in CollectDisk, n \in NetReadings :
        CollectWith(c, m, d, n) =>
          /\ NearestHalfUp(Appended.cpu.usage, c.load, 10)
          /\ m.total > 0 =>
               NearestHalfUp(Appended.memory.usage, 100 * m.used, m.total)
          /\ FieldTotal(d, "size", Len(d)) > 0 =>
               NearestHalfUp(Appended.disk.usage, 100 * FieldTotal(d, "used", Len(d)),
                             FieldTotal(d, "size", Len(d)))
          /\ Len(Appended.disk.devices) = Len(d)
          /\ \A k \in 1..Len(d) :
               d[k].size > 0 =>
                 NearestHalfUp(Appended.disk.devices[k].usage, 100 * d[k].used,
                               d[k].size) ]_vars

\* a load of 25.5 was collected as 26 next to a memory ratio of 2/3 collected
\* as 67 and two file systems with usage 67 and 100 and 86 together
C11_Witness ==
  /\ lastOp = "collect"
  /\ metrics # <<>>
  /\ metrics[1].cpu.usage = 26
  /\ metrics[1].memory.total = 3
  /\ metrics[1].memory.usage = 67
  /\ Len(metrics[1].disk.devices) = 2
  /\ metrics[1].disk.devices[1].usage = 67
  /\ metrics[1].disk.usage = 86

\* C12: a reading with total = 0 is collected with usage 0, for memory, for the
\* disk aggregate and for each disk device.
C12_ZeroTotalGivesZeroUsage ==
  [][ \A c \in CollectCpu, m \in CollectMem, d \in CollectDisk, n \in NetReadings :
        CollectWith(c, m, d, n) =>
          /\ m.total = 0 => Appended.memory.usage = 0
          /\ FieldTotal(d, "size", Len(d)) = 0 => Appended.disk.usage = 0
          /\ \A k \in 1..Len(d) :
               d[k].size = 0 => Appended.disk.devices[k].usage = 0 ]_vars

\* the usage percents of a snapshot
UsagesOf(m) ==
  {m.cpu.usage, m.memory.usage, m.disk.usage}
    \cup {m.disk.devices[k].usage : k \in 1..Len(m.disk.devices)}

\* C13: every usage percent of every snapshot in the store lies in 0..100.
C13_UsageWithinPercentRange ==
  \A i \in 1..Len(metrics) : UsagesOf(metrics[i]) \subseteq 0..100

\* C14: once start() has completed and time has passed, still within the first
\* polling interval after the start, the store holds a first snapshot.
C14_FirstSnapshotWithinInterval ==
  \A t \in timers :
    ( /\ isRunning
      /\ starting = 0
      /\ t.id = intervalId
      /\ now > startTime
      /\ now < startTime + t.period ) => metrics # <<>>

\* the claimed merge: a field of the partial replaces the field at the same
\* path and every other field, at any depth, keeps its value
DeepMerge(c, p) ==
  LET pm == Opt(p, "metrics")
      family(f) ==
        Spread(Spread(c.metrics[f], Opt(pm, f)),
               [thresholds |-> Spread(c.metrics[f].thresholds,
                                      Opt(Opt(pm, f), "thresholds"))])
  IN  Spread(Spread(c, p),
             [ metrics |-> [f \in Families |-> family(f)],
               alerts |-> Spread(c.alerts, Opt(p, "alerts")) ])

\* C15: updateConfig(partial) leaves the configuration deep-merged: every
\* field the partial does not name, at any depth, keeps its value.
C15_UpdateDeepMerges ==
  [][ \A p \in NestedPartials :
        updateConfig(p) => config' = DeepMerge(config, p) ]_vars

\* C16: a tick of the active timer of a running monitor schedules the next
\* tick one configured interval later, whatever updateConfig has set since
\* start().
C16_IntervalChangeTakesEffect ==
  [][ \A t \in timers :
        (isRunning /\ t.id = intervalId /\ Fire(t)) =>
          \E u \in timers' :
            u.id = t.id /\ u.due = now + config.interval \div MsPerSecond ]_vars

\* C17: updateConfig(partial), running or stopped, sets each given field,
\* emits exactly one configUpdated event carrying the resulting
\* configuration, and leaves the running flag, the timer, the store and
\* the alert list unchanged.
C17_UpdateSetsGivenFieldsOnly ==
  [][ \A p \in NestedPartials :
        updateConfig(p) =>
          /\ \A k \in DOMAIN p \ {"metrics", "alerts"} : config'[k] = p[k]
          /\ "alerts" \in DOMAIN p =>
               \A j \in DOMAIN p.alerts : config'.alerts[j] = p.alerts[j]
          /\ "metrics" \in DOMAIN p =>
               \A f \in DOMAIN p.metrics : \A j \in DOMAIN p.metrics[f] :
                 config'.metrics[f][j] = p.metrics[f][j]
          /\ emitted' = << Event("configUpdated", config') >>
          /\ isRunning' = isRunning
          /\ intervalId' = intervalId
          /\ timers' = timers
          /\ startTime' = startTime
          /\ metrics' = metrics
          /\ alerts' = alerts ]_vars

\* updateConfig has just set the interval of a running monitor
C17_Witness ==
  /\ lastOp = "updateConfig"
  /\ isRunning
  /\ intervalId # NoTimer
  /\ config.interval = 2000
  /\ emitted = << Event("configUpdated", config) >>

\* the indexes of the last min(n, store size) snapshots of the store
LastIndexes(n) == {i \in 1..Len(metrics) : i > Len(metrics) - n}

\* the sum of the usage of family f over the snapshots at the indexes S
RECURSIVE UsageOver(_, _)
UsageOver(S, f) ==
  IF S = {} THEN 0
  ELSE LET i == CHOOSE j \in S : TRUE
       IN  metrics[i][f].usage + UsageOver(S \ {i}, f)

\* C18: getAnalysis() is null exactly when the store is empty; otherwise it is
\* a record with summary, trends and averages, each average being the
\* arithmetic mean of the family's usage over the last min(10, store size)
\* snapshots.
C18_AnalysisNullIffEmpty ==
  LET a == getAnalysis(metrics)
      S == LastIndexes(10)
  IN  /\ (a = Null) <=> (metrics = <<>>)
      /\ metrics # <<>> =>
           /\ DOMAIN a = {"summary", "trends", "averages"}
           /\ \A f \in {"cpu", "memory", "disk"} :
                /\ a.averages[f].count = Cardinality(S)
                /\ a.averages[f].sum = UsageOver(S, f)

\* the store has outgrown the window: its oldest snapshot has cpu usage 100,
\* the ten after it 50, and the cpu average is 50
C18_Witness ==
  /\ Len(metrics) = 11
  /\ metrics[1].cpu.usage = 100
  /\ \A i \in 2..11 : metrics[i].cpu.usage = 50
  /\ getAnalysis(metrics).averages.cpu = [sum |-> 500, count |-> 10]

\* C19: for a non-empty store, with the averages taken over the last
\* min(5, store size) snapshots, overallHealth is unhealthy iff avgCpu >= 90 or
\* avgMemory >= 95 or avgDisk >= 95, else degraded iff avgCpu >= 80 or
\* avgMemory >= 85 or avgDisk >= 85, else healthy.
C19_OverallHealthFromAverages ==
  metrics # <<>> =>
    LET S == LastIndexes(5)
        n == Cardinality(S)
        unhealthy == \/ UsageOver(S, "cpu") >= 90 * n
                     \/ UsageOver(S, "memory") >= 95 * n
                     \/ UsageOver(S, "disk") >= 95 * n
        degraded == \/ UsageOver(S, "cpu") >= 80 * n
                    \/ UsageOver(S, "memory") >= 85 * n
                    \/ UsageOver(S, "disk") >= 85 * n
    IN  getAnalysis(metrics).summary.overallHealth =
          IF unhealthy THEN "unhealthy"
          ELSE IF degraded THEN "degraded" ELSE "healthy"

\* the store holds more than five snapshots, the cpu average of the last five
\* is exactly 90 and the health is unhealthy
C19_Witness ==
  /\ Len(metrics) > 5
  /\ UsageOver(LastIndexes(5), "cpu") = 450
  /\ metrics[1].cpu.usage = 50
  /\ getAnalysis(metrics).summary.overallHealth = "unhealthy"

\* C20: for a non-empty store the health score is
\* round((cpuScore + memoryScore + diskScore) / 3), each family score being
\* max(0, 100 - average usage over the last min(5, store size) snapshots), and
\* the score lies in 0..100.
C20_HealthScoreFormula ==
  metrics # <<>> =>
    LET S == LastIndexes(5)
        n == Cardinality(S)
        score(f) == IF 100 * n >= UsageOver(S, f)
                      THEN 100 * n - UsageOver(S, f) ELSE 0
        total == score("cpu") + score("memory") + score("disk")
        result == getAnalysis(metrics).summary.score
    IN  /\ result \in 0..100
        /\ NearestHalfUp(result, total, 3 * n)

\* C21: the trend of a family is taken over the usage of the last
\* min(10, store size) snapshots: stable with fewer than two values; otherwise,
\* the values split into the first floor(n/2) and the rest, stable if the means
\* of the two parts differ by less than 5, increasing if the mean of the rest
\* exceeds the mean of the first part by 5 or more, decreasing if it falls
\* short of it by 5 or more.
C21_TrendFromHalves ==
  metrics # <<>> =>
    \A f \in {"cpu", "memory", "disk"} :
      LET S == LastIndexes(10)
          n == Cardinality(S)
          First == {i \in S : i <= Len(metrics) - n + (n \div 2)}
          Rest == S \ First
          n1 == Cardinality(First)
          n2 == Cardinality(Rest)
          \* (mean of the rest - mean of the first part) * n1 * n2
          diff == UsageOver(Rest, f) * n1 - UsageOver(First, f) * n2
          trend == getAnalysis(metrics).trends[f]
      IN  /\ trend \in {"stable", "increasing", "decreasing"}
          /\ n < 2 => trend = "stable"
          /\ n >= 2 =>
               /\ (diff < 5 * n1 * n2 /\ 0 - diff < 5 * n1 * n2)
                    => trend = "stable"
               /\ diff >= 5 * n1 * n2 => trend = "increasing"
               /\ 0 - diff >= 5 * n1 * n2 => trend = "decreasing"

\* nine snapshots whose first four have mean cpu usage 75 and whose last five
\* have mean 80: the difference is exactly 5 and the trend is increasing
C21_Witness ==
  /\ Len(metrics) = 9
  /\ UsageOver(1..4, "cpu") = 300
  /\ UsageOver(5..9, "cpu") = 400
  /\ getAnalysis(metrics).trends.cpu = "increasing"

\* the result of healthCheck() in the current state
Health == healthCheck(metrics, isRunning, startTime, alerts, now)

\* C22: healthCheck() on a monitor that was never started, whose store is
\* empty, returns overall status healthy with component systemMonitor
\* unhealthy; on a running monitor whose last snapshot is below every
\* component limit it returns status healthy with systemMonitor healthy.
C22_HealthOfFreshAndRunning ==
  /\ (~isRunning /\ metrics = <<>>) =>
       /\ Health.status = "healthy"
       /\ Health.components.systemMonitor = "unhealthy"
  /\ (isRunning /\ metrics # <<>>
        /\ metrics[Len(metrics)].cpu.usage \in 0..79
        /\ metrics[Len(metrics)].memory.usage \in 0..84
        /\ metrics[Len(metrics)].disk.usage \in 0..84) =>
       /\ Health.status = "healthy"
       /\ Health.components.systemMonitor = "healthy"

\* a running monitor whose store holds a snapshot with memory at 95 followed by
\* one with cpu at 79, memory and disk at 50, and whose health is healthy
C22_Witness ==
  /\ isRunning
  /\ Len(metrics) = 2
  /\ metrics[1].memory.usage = 95
  /\ metrics[2].cpu.usage = 79
  /\ metrics[2].memory.usage = 50
  /\ Health.status = "healthy"
  /\ Health.components.systemMonitor = "healthy"

\* C29: healthCheck classifies each component from the most recent snapshot
\* only: cpu unhealthy at usage >= 90, degraded from 80 up to 90, healthy
\* otherwise; memory and disk unhealthy at usage >= 95, degraded from 85 up to
\* 95, healthy otherwise; network always healthy.
C29_ComponentsFromLastSnapshot ==
  metrics # <<>> =>
    LET last == metrics[Len(metrics)]
        class(u, hi, lo) == IF u # NaN /\ u >= hi THEN "unhealthy"
                            ELSE IF u # NaN /\ u >= lo THEN "degraded"
                            ELSE "healthy"
    IN  /\ Health.components.cpu = class(last.cpu.usage, 90, 80)
        /\ Health.components.memory = class(last.memory.usage, 95, 85)
        /\ Health.components.disk = class(last.disk.usage, 95, 85)
        /\ Health.components.network = "healthy"

\* the store holds a snapshot with cpu at 90 followed by one with cpu at 80,
\* and the cpu component is degraded
C29_Witness ==
  /\ Len(metrics) = 2
  /\ metrics[1].cpu.usage = 90
  /\ metrics[2].cpu.usage = 80
  /\ Health.components.cpu = "degraded"

\* C23: every snapshot carries a record for each of the four families; a
\* family that is disabled contributes its zero record, its provider is not
\* called, and no alert is raised for it.
C23_DisabledFamilyIsZero ==
  /\ \A k \in 1..Len(metrics) :
       /\ Families \subseteq DOMAIN metrics[k]
       /\ \A f \in Families :
            ~config.metrics[f].enabled => metrics[k][f] = ZeroRecord(f)
  /\ \A i \in 1..Len(calls) :
       (calls[i].pc \in Families /\ ~config.metrics[calls[i].pc].enabled)
         => ~calls[i].called
  /\ \A k \in 1..Len(alerts) : config.metrics[alerts[k].metric].enabled

\* cpu is disabled with every threshold at 0; a tick has stored a snapshot with
\* the zero cpu record and memory at 50, and no alert exists
C23_Witness ==
  /\ ~config.metrics.cpu.enabled
  /\ config.metrics.cpu.thresholds.warning = 0
  /\ Len(metrics) = 1
  /\ metrics[1].cpu = [usage |-> 0, cores |-> 0]
  /\ metrics[1].memory.usage = 50
  /\ alerts = <<>>
  /\ calls = <<>>

\* C24: start() on a stopped monitor succeeds even when the baseline network
\* call fails: when start() resumes from that call, no stop() having
\* intervened, the monitor is running, a new timer is installed and is the
\* monitor's timer, 'started' is emitted and nothing is thrown; after a failed
\* call the baseline is empty.
C24_StartSurvivesPrimingFailure ==
  [][ (starting' < starting /\ isRunning) =>
        /\ isRunning'
        /\ alive'
        /\ intervalId' # NoTimer
        /\ \E t \in timers' \ timers : t.id = intervalId'
        /\ EventTypes(emitted') = {"started"}
        /\ \/ lastNetworkStats' \in NetReadings
           \/ ("network" \in flaky /\ lastNetworkStats' = <<>>) ]_vars

\* a second start() whose baseline call has just failed after a first one whose
\* call succeeded: the baseline is empty again and the monitor is running with
\* its timer
C24_Witness ==
  /\ lastOp = "startResume"
  /\ lastNetworkStats = <<>>
  /\ isRunning
  /\ startTime > 0
  /\ \E t \in timers : t.id = intervalId
  /\ EventTypes(emitted) = {"started"}

\* alerts.cooldownPeriod in seconds
CooldownSeconds(p) == CASE p = "5m" -> 5 * 60 [] p = "1h" -> 60 * 60

\* C25: alerting applies cooldown and rate limiting: within any hour at most
\* maxAlertsPerHour alerts enter the alert list, and two alerts of the same
\* family are at least cooldownPeriod apart.
C25_CooldownAndRateLimit ==
  /\ \A k \in 1..Len(alerts) :
       Cardinality({j \in 1..Len(alerts) :
                      /\ alerts[j].timestamp <= alerts[k].timestamp
                      /\ alerts[j].timestamp > alerts[k].timestamp - 60 * 60})
         <= config.alerts.maxAlertsPerHour
  /\ \A j, k \in 1..Len(alerts) :
       (j < k /\ alerts[j].metric = alerts[k].metric) =>
         alerts[k].timestamp - alerts[j].timestamp
           >= CooldownSeconds(config.alerts.cooldownPeriod)

\* cfg with the settings no code reads at their default values
Declared(cfg) ==
  [cfg EXCEPT !.alerts.cooldownPeriod = DefaultConfig.alerts.cooldownPeriod,
              !.alerts.maxAlertsPerHour = DefaultConfig.alerts.maxAlertsPerHour,
              !.alerts.escalationEnabled = DefaultConfig.alerts.escalationEnabled,
              !.metrics.cpu.interval = DefaultConfig.metrics.cpu.interval,
              !.metrics.memory.interval = DefaultConfig.metrics.memory.interval,
              !.metrics.disk.interval = DefaultConfig.metrics.disk.interval,
              !.metrics.network.interval = DefaultConfig.metrics.network.interval]

C30_NoAlertsWhileDisabled ==
  [][ (~config.alerts.enabled /\ lastOp' = "collect") =>
        /\ alerts' = alerts
        /\ "alert" \notin EventTypes(emitted')
        /\ Len(metrics') = Len(metrics) + 1
        /\ Appended.timestamp = now
        /\ Event("metricsCollected", Appended)
             \in {emitted'[k] : k \in 1..Len(emitted')} ]_vars

\* alerts were switched off after a tick had added an alert; a later tick has
\* stored a snapshot with cpu at 90 and the alert list still holds that one alert
C30_Witness ==
  /\ ~config.alerts.enabled
  /\ lastOp = "collect"
  /\ Len(metrics) = 2
  /\ metrics[2].cpu.usage = 90
  /\ Len(alerts) = 1
  /\ alerts[1].timestamp = 1
  /\ "metricsCollected" \in EventTypes(emitted)

\* C28: the eviction cutoff a tick uses after its append is now minus the
\* largest of the four configured retention values (days, as time), for every
\* configuration of retention values, 0 included.
C28_CutoffIsMaxConfiguredRetention ==
  lastOp = "network" =>
    cutoffTime(config, now) = now - ConfiguredMaxRetention * SecondsPerDay

\* C26: alerts are kept on a fixed 30-day horizon, whatever the metric
\* retention: after a tick every alert in the list is newer than now minus 30
\* days, the tick has kept every alert that is, and no other step removes an
\* alert.
C26_AlertsKeptThirtyDays ==
  [][ LET horizon == now - 30 * SecondsPerDay
      IN  IF lastOp' = "collect"
            THEN /\ \A k \in 1..Len(alerts') : alerts'[k].timestamp > horizon
                 /\ \A k \in 1..Len(alerts) :
                      alerts[k].timestamp > horizon =>
                        \E j \in 1..Len(alerts') : alerts'[j] = alerts[k]
            ELSE alerts' = alerts ]_vars

\* with a metric retention of 60 days the store still holds the snapshot of
\* day 15 at day 45 while the alert of day 15 is gone: the tick of day 45 has
\* left its own alert only
C26_Witness ==
  /\ config.metrics.cpu.retention = 60
  /\ lastOp = "collect"
  /\ now = 45 * SecondsPerDay
  /\ Len(metrics) = 2
  /\ metrics[1].timestamp = 15 * SecondsPerDay
  /\ Len(alerts) = 1
  /\ alerts[1].timestamp = now

\* the events of type ty in es, in order
EventsOf(es, ty) == SelectSeq(es, LAMBDA e : e.type = ty)

C32_TimerOnlyWhileRunning ==
  /\ timers # {} => isRunning
  /\ Cardinality(timers) <= 1
  /\ (~isRunning /\ starting = 0) => timers = {}

\* C33: lifecycle events reflect the lifecycle state: when 'started' is emitted
\* the monitor is running, when 'stopped' is emitted it is stopped; 'stopped'
\* is emitted only by the step that takes the monitor from running to stopped
\* and 'started' only by a start() that completes, so that the two alternate.
C33_LifecycleEventsReflectState ==
  [][ /\ "started" \in EventTypes(emitted') =>
           /\ isRunning'
           /\ (starting' < starting \/ ~isRunning)
      /\ "stopped" \in EventTypes(emitted') =>
           /\ ~isRunning'
           /\ isRunning
           /\ starting = 0 ]_vars

\* C34: the fallback of a family does not depend on subscribers: when a
\* provider call fails in a tick and no error listener is registered, the
\* process stays alive and the tick goes on with the family's zero-value
\* record, up to the appended snapshot.
C34_FallbackWithoutListener ==
  [][ ~hasErrorListener =>
        \A i \in 1..Len(calls) :
          AwaitingProvider(calls[i]) =>
            \A o \in CallOutcomes(calls[i]) :
              (Failed(calls[i], o) /\ ResumeAt(i, o)) =>
                LET c == calls[i] IN
                /\ alive'
                /\ IF c.pc = "network"
                     THEN /\ Len(metrics') = Len(metrics) + 1
                          /\ metrics'[Len(metrics')].network = ZeroNetwork
                     ELSE /\ Len(calls') = Len(calls)
                          /\ calls'[i][c.pc] = ZeroRecord(c.pc) ]_vars

\* the members of a sequence
Range(s) == {s[k] : k \in 1..Len(s)}

\* C35: for a non-empty store the summary is consistent: keyIssues is empty
\* iff overallHealth is healthy, keyIssues and recommendations have the same
\* length, and each holds exactly one message for each family whose average
\* over the last min(5, store size) snapshots reaches 80 (cpu), 85 (memory),
\* 85 (disk), and no other.
C35_SummaryIsConsistent ==
  metrics # <<>> =>
    LET s == getAnalysis(metrics).summary
        S == LastIndexes(5)
        n == Cardinality(S)
        high == {f \in {"cpu", "memory", "disk"} :
                   UsageOver(S, f) >= (IF f = "cpu" THEN 80 ELSE 85) * n}
        issue == [cpu |-> "High CPU usage detected",
                  memory |-> "High memory usage detected",
                  disk |-> "High disk usage detected"]
        advice == [cpu |-> "Consider optimizing CPU-intensive processes",
                   memory |-> "Consider increasing memory or optimizing memory usage",
                   disk |-> "Consider cleaning up disk space or expanding storage"]
    IN  /\ (s.keyIssues = <<>>) <=> (s.overallHealth = "healthy")
        /\ Len(s.keyIssues) = Len(s.recommendations)
        /\ Len(s.keyIssues) = Cardinality(high)
        /\ Range(s.keyIssues) = {issue[f] : f \in high}
        /\ Range(s.recommendations) = {advice[f] : f \in high}

\* six snapshots, the oldest with all three families high and the five after
\* it averaging exactly 80 for cpu and 75 for memory, with disk at 45: one
\* issue, for cpu
C35_Witness ==
  /\ Len(metrics) = 6
  /\ metrics[1].disk.usage = 95
  /\ UsageOver(LastIndexes(5), "cpu") = 400
  /\ UsageOver(LastIndexes(5), "memory") = 375
  /\ UsageOver(LastIndexes(5), "disk") = 225
  /\ getAnalysis(metrics).summary.keyIssues = << "High CPU usage detected" >>
  /\ getAnalysis(metrics).summary.overallHealth = "degraded"

\* the worst of the five component states of healthCheck()
WorstComponent ==
  LET states == {Health.components[c] : c \in DOMAIN Health.components}
  IN  IF "unhealthy" \in states THEN "unhealthy"
      ELSE IF "degraded" \in states THEN "degraded" ELSE "healthy"

\* C36, as claimed: in every state the overall status of healthCheck() is the
\* worst of its five component states, whether or not the store holds a
\* snapshot and whether the monitor is running or stopped.
C36_OverallIsWorstComponent ==
  /\ DOMAIN Health.components = {"systemMonitor", "cpu", "memory", "disk", "network"}
  /\ Health.status = WorstComponent

\* C36, amended: the overall status of healthCheck() is the worst of its five
\* component states whenever the store holds a snapshot; with an empty store
\* it is healthy, whatever the components are.
C36_OverallIsWorstWhenSampled ==
  /\ DOMAIN Health.components = {"systemMonitor", "cpu", "memory", "disk", "network"}
  /\ Health.status = IF metrics = <<>> THEN "healthy" ELSE WorstComponent

\* a stopped monitor whose last snapshot is below every limit: systemMonitor
\* alone is unhealthy, and so is the overall status
C36_Witness ==
  /\ ~isRunning
  /\ metrics # <<>>
  /\ Health.components.cpu = "healthy"
  /\ Health.components.memory = "healthy"
  /\ Health.components.disk = "healthy"
  /\ Health.components.systemMonitor = "unhealthy"
  /\ Health.status = "unhealthy"

\* C37: after construction and after every updateConfig the configuration is
\* complete: every field of the defaults is defined at every nesting level, in
\* particular each family has its three thresholds.
C37_ConfigIsComplete ==
  /\ DOMAIN DefaultConfig \subseteq DOMAIN config
  /\ DOMAIN DefaultConfig.alerts \subseteq DOMAIN config.alerts
  /\ Families \subseteq DOMAIN config.metrics
  /\ \A f \in Families :
       /\ DOMAIN DefaultConfig.metrics[f] \subseteq DOMAIN config.metrics[f]
       /\ {"warning", "critical", "emergency"} \subseteq DOMAIN config.metrics[f].thresholds

\* C38: every alert in the alert list is unresolved, is for cpu, memory or
\* disk, carries the usage of its family in the snapshot that raised it and
\* the configured threshold of its severity, and its value reaches its
\* threshold.
C38_AlertsAreWellFormed ==
  \A k \in 1..Len(alerts) :
    LET a == alerts[k] IN
    /\ a.resolved = FALSE
    /\ a.metric \in {"cpu", "memory", "disk"}
    /\ a.severity \in Levels
    /\ metrics # <<>>
    /\ a.value = metrics[1][a.metric].usage
    /\ a.threshold = config.metrics[a.metric].thresholds[a.severity]
    /\ a.value >= a.threshold

\* thresholds out of order, warning 90 above critical 70: a memory usage of
\* 100 has raised an emergency alert at 95 and a cpu usage of 85 a critical
\* alert at 70
C38_Witness ==
  /\ lastOp = "evaluate"
  /\ config.metrics.cpu.thresholds.warning = 90
  /\ \E k \in 1..Len(alerts) :
       /\ alerts[k].metric = "memory" /\ alerts[k].severity = "emergency"
       /\ alerts[k].value = 100 /\ alerts[k].threshold = 95
  /\ \E k \in 1..Len(alerts) :
       /\ alerts[k].metric = "cpu" /\ alerts[k].severity = "critical"
       /\ alerts[k].value = 85 /\ alerts[k].threshold = 70

\* C39: stop() and a later start() do not clear history: stop() leaves the
\* store, the alert list and the configuration as they are, start() too, so
\* that getMetrics() and getAlerts() still return what earlier runs collected,
\* and a start() that takes effect sets the start time to the current time.
C39_RestartKeepsHistory ==
  [][ /\ lastOp' \in {"stop", "start", "startResume"} =>
           /\ getMetricsAll(metrics') = getMetricsAll(metrics)
           /\ getAlerts(alerts') = getAlerts(alerts)
           /\ config' = config
      /\ lastOp' = "stop" => startTime' = startTime
      /\ lastOp' = "start" =>
           startTime' = IF isRunning THEN startTime ELSE now ]_vars

\* a monitor started at 0, stopped and started again at 2 returns the snapshot
\* and the alert of its first run
C39_Witness ==
  /\ lastOp = "startResume"
  /\ isRunning
  /\ startTime = 2
  /\ getMetricsAll(metrics) # <<>>
  /\ getMetricsAll(metrics)[1].timestamp = 1
  /\ getAlerts(alerts) # <<>>
  /\ getAlerts(alerts)[1].timestamp = 1

=============================================================================
